---- MODULE Spec2Model ----
(***************************************************************************)
(* A model of the supabase-storage request builder: a Storage hands out    *)
(* Builders (Storage::from), a Builder accumulates path segments, query    *)
(* pairs, headers, a method and a body, an operation turns it into an      *)
(* Executor, and a dispatch (Executor::execute, Executor::execute_from,    *)
(* Builder::run) sends the request and maps the outcome to a value.        *)
(*                                                                         *)
(* Text is a sequence of tokens: a token is one character that the URL or  *)
(* header code treats specially ("/", "%", ".", the control character      *)
(* "LF") or a run of ordinary characters ("bucket", "a").                  *)
(***************************************************************************)
EXTENDS Integers, Sequences, FiniteSets, TLC

VARIABLES storage, made, heap, slots

vars == <<storage, made, heap, slots>>

-----------------------------------------------------------------------------
(* Bounds of the model *)

\* number of builders a run creates (each slot is used once)
NumBuilders == 2

\* longest bucket id / object key, in tokens, of the request-construction runs
MaxStrLen == 2

\* cap on the sends of one dispatch (reached only by a retrying variant)
MaxSends == 3

Builders == 1..NumBuilders

-----------------------------------------------------------------------------
(* Option, text *)

None == [tag |-> "None"]

Some(v) == [tag |-> "Some", val |-> v]

Chars == {"a", "/", ".", "%"}

Strs == UNION {[1..n -> Chars] : n \in 0..MaxStrLen}

\* the arguments of the life-cycle runs
SmallStrs == {<<"a">>}

Bodies == {"{}", "{\"public\":true}"}

SmallBodies == {"{}"}

CtlChars == {"LF"}

\* the first position of sep in text, 0 when there is none
IndexOf(text, sep) ==
    IF \E k \in 1..Len(text) : text[k] = sep
    THEN CHOOSE k \in 1..Len(text) :
            text[k] = sep /\ \A m \in 1..(k - 1) : text[m] # sep
    ELSE 0

RECURSIVE Split(_, _)
\* the pieces of text between the occurrences of sep
Split(text, sep) ==
    IF IndexOf(text, sep) = 0 THEN <<text>>
    ELSE <<SubSeq(text, 1, IndexOf(text, sep) - 1)>>
            \o Split(SubSeq(text, IndexOf(text, sep) + 1, Len(text)), sep)

-----------------------------------------------------------------------------
(* reqwest::header::HeaderMap: names are case-insensitive and kept in lower  *)
(* case; insert replaces the value of a name already present.               *)

Lower(name) ==
    CASE name = "Authorization" -> "authorization"
      [] name = "apiKey" -> "apikey"
      [] name = "Content-Type" -> "content-type"
      [] OTHER -> name

HeaderMap_new == [n \in {} |-> <<>>]

\* variant: the value of a name already present is kept
insert_keep(map, key, value) ==
    [n \in (DOMAIN map) \cup {Lower(key)} |->
        IF n \in DOMAIN map THEN map[n] ELSE value]

insert(map, key, value) ==
    [n \in (DOMAIN map) \cup {Lower(key)} |->
        IF n = Lower(key) THEN value ELSE map[n]]

get(map, key) ==
    IF Lower(key) \in DOMAIN map THEN Some(map[Lower(key)]) ELSE None

len(map) == Cardinality(DOMAIN map)

\* HeaderValue::from_str: Err on a control character
HeaderValue_from_str(v) ==
    IF \E k \in 1..Len(v) : v[k] \in CtlChars THEN None ELSE Some(v)

-----------------------------------------------------------------------------
(* url::Url of a hierarchical (http, https) URL: the origin, the path as   *)
(* the sequence of its segments (the root path "/" is the empty sequence)  *)
(* and the query as its text (the empty sequence: no query).               *)

Url(scheme, host, port, path, query) ==
    [scheme |-> scheme, host |-> host, port |-> port, path |-> path,
     query |-> query]

origin(url) == <<url.scheme, url.host, url.port>>

BaseUrls ==
    { Url("http", "localhost", 80, <<>>, <<>>),
      Url("https", "project", 443, << <<"storage">>, <<"v1">> >>, <<>>),
      Url("https", "project", 443, << <<"storage">>, <<"v1">>, <<>> >>, <<>>),
      Url("https", "project", 443, << <<"storage">>, <<"v1">> >>,
          <<"v", "=", "1">>) }

\* percent-encoding of one character of a pushed segment: '/' and '%' are
\* encoded, so that the text stays inside the segment
EncodeChar(c) ==
    CASE c = "/" -> "%2F"
      [] c = "%" -> "%25"
      [] OTHER -> c

EncodeSegment(seg) == [k \in 1..Len(seg) |-> EncodeChar(seg[k])]

\* variant: the segment takes the place of the last segment, as Url::join
\* does
push_join(url, seg) ==
    IF seg = <<".">> \/ seg = <<".", ".">>
    THEN url
    ELSE IF url.path = <<>>
         THEN [url EXCEPT !.path = <<EncodeSegment(seg)>>]
         ELSE [url EXCEPT !.path =
                  Append(SubSeq(@, 1, Len(@) - 1), EncodeSegment(seg))]

RECURSIVE push_pieces(_, _)
push_pieces(path, pieces) ==
    IF pieces = <<>> THEN path
    ELSE push_pieces(Append(path, EncodeSegment(Head(pieces))), Tail(pieces))

\* variant: a '/' in the segment starts a new segment
push_split(url, seg) ==
    IF seg = <<".">> \/ seg = <<".", ".">>
    THEN url
    ELSE IF url.path = <<>> /\ seg = <<>>
         THEN url
         ELSE [url EXCEPT !.path = push_pieces(@, Split(seg, "/"))]

\* PathSegmentsMut::push: a segment "." or ".." is ignored; an empty segment
\* pushed on the root path leaves "/"; any other segment is appended,
\* percent-encoded
push(url, seg) ==
    IF seg = <<".">> \/ seg = <<".", ".">>
    THEN url
    ELSE IF url.path = <<>> /\ seg = <<>>
         THEN url
         ELSE [url EXCEPT !.path = Append(@, EncodeSegment(seg))]

\* the application/x-www-form-urlencoded form of one character: '&', '=' and
\* '%' are percent-encoded
EncodeFormChar(c) ==
    CASE c = "&" -> "%26"
      [] c = "=" -> "%3D"
      [] c = "%" -> "%25"
      [] OTHER -> c

byte_serialize(str) == [k \in 1..Len(str) |-> EncodeFormChar(str[k])]

\* variant: the pair takes the place of the query
append_pair_set(url, name, value) ==
    [url EXCEPT !.query = <<name, "=">> \o byte_serialize(value)]

\* query_pairs_mut().append_pair: name=value, form-urlencoded, at the end of
\* the query, after a '&' when the query is not empty
append_pair(url, name, value) ==
    [url EXCEPT !.query =
        (IF @ = <<>> THEN <<>> ELSE @ \o <<"&">>)
            \o <<name, "=">> \o byte_serialize(value)]

-----------------------------------------------------------------------------
(* Storage *)

ApiKeys == {None, Some(<<"k">>), Some(<<"k", "LF">>)}

Configs == [supabase_url_storage : BaseUrls, supabase_api_key : ApiKeys]

\* a constructor that panicked yields no Storage
NoStorage == [ok |-> FALSE, url |-> Url("", "", 0, <<>>, <<>>),
              headers |-> HeaderMap_new]

Storage_new(url) == [ok |-> TRUE, url |-> url, headers |-> HeaderMap_new]

\* variant: the apiKey header carries the bearer text too
Storage_new_with_config_bearer(config) ==
    LET key == config.supabase_api_key
        bearer == HeaderValue_from_str(<<"Bearer ">> \o key.val)
    IN IF key = None
       THEN [ok |-> TRUE, url |-> config.supabase_url_storage,
             headers |-> HeaderMap_new]
       ELSE IF bearer = None
            THEN NoStorage
            ELSE [ok |-> TRUE, url |-> config.supabase_url_storage,
                  headers |-> insert(insert(HeaderMap_new, "Authorization",
                                            bearer.val),
                                     "apiKey", bearer.val)]

Storage_new_with_config(config) ==
    LET key == config.supabase_api_key
        bearer == HeaderValue_from_str(<<"Bearer ">> \o key.val)
        plain == HeaderValue_from_str(key.val)
    IN IF key = None
       THEN [ok |-> TRUE, url |-> config.supabase_url_storage,
             headers |-> HeaderMap_new]
       ELSE IF bearer = None \/ plain = None
            THEN NoStorage
            ELSE [ok |-> TRUE, url |-> config.supabase_url_storage,
                  headers |-> insert(insert(HeaderMap_new, "Authorization",
                                            bearer.val),
                                     "apiKey", plain.val)]

-----------------------------------------------------------------------------
(* Builder *)

NoBody == None

StringBody(s) == Some([tag |-> "StringBody", val |-> s])

\* the body that streams the opened file f
ReqwestBody(f) == Some([tag |-> "ReqwestBody", val |-> f])

\* variant: the builder starts with an empty body instead of none
Builder_new_empty_body(url, headers, client) ==
    [url |-> url, headers |-> headers, client |-> client, method |-> "GET",
     body |-> StringBody("")]

Builder_new(url, headers, client) ==
    [url |-> url, headers |-> headers, client |-> client, method |-> "GET",
     body |-> NoBody]

\* the last call on a builder and its arguments: the URL and header map it
\* was called on, bucket id b, object key o, body s, header key and value,
\* token, and the keys from and to of a move or copy
NoCall == [op |-> "", url |-> Url("", "", 0, <<>>, <<>>), map |-> HeaderMap_new,
           b |-> <<>>, s |-> "", key |-> "", value |-> <<>>,
           o |-> <<>>, token |-> <<>>, from |-> <<>>, to |-> <<>>]

NoBuilder == Builder_new(Url("", "", 0, <<>>, <<>>), 0, "client")

NoRequest == [method |-> "", url |-> Url("", "", 0, <<>>, <<>>),
              headers |-> HeaderMap_new, body |-> NoBody]

NoOutcome == [tag |-> "Pending"]

FreeSlot ==
    [kind |-> "free", builder |-> NoBuilder, origin |-> "", call |-> NoCall,
     via |-> "",
     sent |-> 0, request |-> NoRequest, outcome |-> NoOutcome,
     result |-> NoOutcome]

\* the header map behind the handle of slot i
headers_of(i) == heap[slots[i].builder.headers]

\* the state after the Storage is constructed; made records the constructor
\* and its argument
Init ==
    /\ \E c \in Configs :
          \/ /\ c.supabase_api_key = None
             /\ made = [ctor |-> "new", config |-> c]
             /\ storage = Storage_new(c.supabase_url_storage)
          \/ /\ made = [ctor |-> "new_with_config", config |-> c]
             /\ storage = Storage_new_with_config(c)
    /\ heap = [h \in Builders |-> HeaderMap_new]
    /\ slots = [i \in Builders |-> FreeSlot]

\* variant: every builder of the Storage holds the same header map
from_shared(i) ==
    /\ storage.ok
    /\ slots[i].kind = "free"
    /\ heap' = IF \E j \in Builders : slots[j].origin = "from"
               THEN heap
               ELSE [heap EXCEPT ![1] = storage.headers]
    /\ slots' = [slots EXCEPT ![i] =
                    [FreeSlot EXCEPT
                        !.kind = "builder",
                        !.origin = "from",
                        !.builder = Builder_new(storage.url, 1, "client"),
                        !.call = [NoCall EXCEPT !.op = "from",
                                                !.url = storage.url,
                                                !.map = storage.headers]]]
    /\ UNCHANGED <<storage, made>>

\* Storage::from: self.url.clone() and self.headers.clone() copy the URL and
\* the HeaderMap of the Storage; the builder holds the copy behind a handle
\* of its own
from(i) ==
    /\ storage.ok
    /\ slots[i].kind = "free"
    /\ heap' = [heap EXCEPT ![i] = storage.headers]
    /\ slots' = [slots EXCEPT ![i] =
                    [FreeSlot EXCEPT
                        !.kind = "builder",
                        !.origin = "from",
                        !.builder = Builder_new(storage.url, i, "client"),
                        !.call = [NoCall EXCEPT !.op = "from",
                                                !.url = storage.url,
                                                !.map = storage.headers]]]
    /\ UNCHANGED <<storage, made>>

\* Builder::header
header(i, key, value) ==
    /\ slots[i].kind = "builder"
    /\ heap' = [heap EXCEPT ![slots[i].builder.headers] = insert(@, key, value)]
    /\ slots' = [slots EXCEPT ![i].call =
                    [NoCall EXCEPT !.op = "header", !.key = key,
                                   !.value = value,
                                   !.url = slots[i].builder.url,
                                   !.map = headers_of(i)]]
    /\ UNCHANGED <<storage, made>>

\* Builder::create_executor: the executor takes the builder over
create_executor(i, self, call) ==
    slots' = [slots EXCEPT ![i] =
                 [FreeSlot EXCEPT
                     !.kind = "executor",
                     !.origin = slots[i].origin,
                     !.builder = self,
                     !.call = [call EXCEPT !.url = slots[i].builder.url,
                                           !.map = headers_of(i)]]]

-----------------------------------------------------------------------------
(* Bucket operations *)

get_buckets(i) ==
    /\ slots[i].kind = "builder"
    /\ LET self == [slots[i].builder EXCEPT !.url = push(@, <<"bucket">>)]
       IN create_executor(i, self, [NoCall EXCEPT !.op = "get_buckets"])
    /\ UNCHANGED <<storage, made, heap>>

create_bucket(i, body) ==
    /\ slots[i].kind = "builder"
    /\ LET self == [slots[i].builder EXCEPT
                        !.method = "POST",
                        !.url = push(@, <<"bucket">>),
                        !.body = StringBody(body)]
       IN create_executor(i, self,
              [NoCall EXCEPT !.op = "create_bucket", !.s = body])
    /\ UNCHANGED <<storage, made, heap>>

\* variant: the method is left at GET
empty_bucket_get(i, bucket_id) ==
    /\ slots[i].kind = "builder"
    /\ LET self == [slots[i].builder EXCEPT
                        !.url = push(push(@, <<"bucket">>), bucket_id)]
       IN create_executor(i, self,
              [NoCall EXCEPT !.op = "empty_bucket", !.b = bucket_id])
    /\ UNCHANGED <<storage, made, heap>>

empty_bucket(i, bucket_id) ==
    /\ slots[i].kind = "builder"
    /\ LET self == [slots[i].builder EXCEPT
                        !.method = "POST",
                        !.url = push(push(@, <<"bucket">>), bucket_id)]
       IN create_executor(i, self,
              [NoCall EXCEPT !.op = "empty_bucket", !.b = bucket_id])
    /\ UNCHANGED <<storage, made, heap>>

get_bucket_details(i, bucket_id) ==
    /\ slots[i].kind = "builder"
    /\ LET self == [slots[i].builder EXCEPT
                        !.url = push(push(@, <<"bucket">>), bucket_id)]
       IN create_executor(i, self,
              [NoCall EXCEPT !.op = "get_bucket_details", !.b = bucket_id])
    /\ UNCHANGED <<storage, made, heap>>

update_bucket(i, bucket_id, body) ==
    /\ slots[i].kind = "builder"
    /\ heap' = [heap EXCEPT ![slots[i].builder.headers] =
                   insert(@, "Content-Type", <<"application/json">>)]
    /\ LET self == [slots[i].builder EXCEPT
                        !.method = "PUT",
                        !.url = push(push(@, <<"bucket">>), bucket_id),
                        !.body = StringBody(body)]
       IN create_executor(i, self,
              [NoCall EXCEPT !.op = "update_bucket", !.b = bucket_id,
                             !.s = body])
    /\ UNCHANGED <<storage, made>>

delete_bucket(i, bucket_id) ==
    /\ slots[i].kind = "builder"
    /\ LET self == [slots[i].builder EXCEPT
                        !.method = "DELETE",
                        !.url = push(push(@, <<"bucket">>), bucket_id)]
       IN create_executor(i, self,
              [NoCall EXCEPT !.op = "delete_bucket", !.b = bucket_id])
    /\ UNCHANGED <<storage, made, heap>>

-----------------------------------------------------------------------------
(* Object operations *)

\* the pairs of a bucket id and an object key tried
ObjectArgs ==
    {p \in Strs \X Strs : Len(p[1]) + Len(p[2]) <= MaxStrLen + 1}

delete_object_intern(i, self, call) ==
    create_executor(i, [self EXCEPT !.method = "DELETE"], call)

delete_object(i, bucket_id, object) ==
    /\ slots[i].kind = "builder"
    /\ LET self == [slots[i].builder EXCEPT
                        !.url = push(push(push(@, <<"object">>), bucket_id),
                                     object)]
       IN delete_object_intern(i, self,
              [NoCall EXCEPT !.op = "delete_object", !.b = bucket_id,
                             !.o = object])
    /\ UNCHANGED <<storage, made, heap>>

\* variant: the body is not set
delete_objects_no_body(i, bucket_id, body) ==
    /\ slots[i].kind = "builder"
    /\ heap' = [heap EXCEPT ![slots[i].builder.headers] =
                   insert(@, "Content-Type", <<"application/json">>)]
    /\ LET self == [slots[i].builder EXCEPT
                        !.url = push(push(@, <<"object">>), bucket_id)]
       IN delete_object_intern(i, self,
              [NoCall EXCEPT !.op = "delete_objects", !.b = bucket_id,
                             !.s = body])
    /\ UNCHANGED <<storage, made>>

delete_objects(i, bucket_id, body) ==
    /\ slots[i].kind = "builder"
    /\ heap' = [heap EXCEPT ![slots[i].builder.headers] =
                   insert(@, "Content-Type", <<"application/json">>)]
    /\ LET self == [slots[i].builder EXCEPT
                        !.url = push(push(@, <<"object">>), bucket_id),
                        !.body = StringBody(body)]
       IN delete_object_intern(i, self,
              [NoCall EXCEPT !.op = "delete_objects", !.b = bucket_id,
                             !.s = body])
    /\ UNCHANGED <<storage, made>>

get_object(i, bucket_name, object) ==
    /\ slots[i].kind = "builder"
    /\ LET self == [slots[i].builder EXCEPT
                        !.url = push(push(push(@, <<"object">>), bucket_name),
                                     object)]
       IN create_executor(i, self,
              [NoCall EXCEPT !.op = "get_object", !.b = bucket_name,
                             !.o = object])
    /\ UNCHANGED <<storage, made, heap>>

download_object(i, bucket_id) ==
    /\ slots[i].kind = "builder"
    /\ heap' = [heap EXCEPT ![slots[i].builder.headers] =
                   insert(@, "Content-Type", <<"application/json">>)]
    /\ LET self == [slots[i].builder EXCEPT
                        !.method = "POST",
                        !.url = push(push(@, <<"object">>), bucket_id)]
       IN create_executor(i, self,
              [NoCall EXCEPT !.op = "download_object", !.b = bucket_id])
    /\ UNCHANGED <<storage, made>>

\* variant: the body is sent as the empty JSON object whatever is given
list_objects_empty_body(i, bucket_id, body) ==
    /\ slots[i].kind = "builder"
    /\ heap' = [heap EXCEPT ![slots[i].builder.headers] =
                   insert(@, "Content-Type", <<"application/json">>)]
    /\ LET self == [slots[i].builder EXCEPT
                        !.method = "POST",
                        !.url = push(push(push(@, <<"object">>), <<"list">>),
                                     bucket_id),
                        !.body = StringBody("{}")]
       IN create_executor(i, self,
              [NoCall EXCEPT !.op = "list_objects", !.b = bucket_id,
                             !.s = body])
    /\ UNCHANGED <<storage, made>>

list_objects(i, bucket_id, body) ==
    /\ slots[i].kind = "builder"
    /\ heap' = [heap EXCEPT ![slots[i].builder.headers] =
                   insert(@, "Content-Type", <<"application/json">>)]
    /\ LET self == [slots[i].builder EXCEPT
                        !.method = "POST",
                        !.url = push(push(push(@, <<"object">>), <<"list">>),
                                     bucket_id),
                        !.body = StringBody(body)]
       IN create_executor(i, self,
              [NoCall EXCEPT !.op = "list_objects", !.b = bucket_id,
                             !.s = body])
    /\ UNCHANGED <<storage, made>>

get_public_object(i, bucket_id, object) ==
    /\ slots[i].kind = "builder"
    /\ LET self == [slots[i].builder EXCEPT
                        !.url = push(push(push(push(@, <<"object">>),
                                     <<"public">>), bucket_id), object)]
       IN create_executor(i, self,
              [NoCall EXCEPT !.op = "get_public_object", !.b = bucket_id,
                             !.o = object])
    /\ UNCHANGED <<storage, made, heap>>

get_public_object_info(i, bucket_id, object) ==
    /\ slots[i].kind = "builder"
    /\ LET self == [slots[i].builder EXCEPT
                        !.url = push(push(push(push(push(@, <<"object">>),
                                     <<"info">>), <<"public">>), bucket_id),
                                     object)]
       IN create_executor(i, self,
              [NoCall EXCEPT !.op = "get_public_object_info",
                             !.b = bucket_id, !.o = object])
    /\ UNCHANGED <<storage, made, heap>>

-----------------------------------------------------------------------------
(* Move and copy: the body is the MoveCopyObject serialised by serde_json *)

JsonChars == {"a", "\"", "\\"}

JsonStrs == UNION {[1..n -> JsonChars] : n \in 0..MaxStrLen}

\* the triples of bucket id, source key and destination key tried
MoveCopyArgs ==
    {t \in JsonStrs \X JsonStrs \X JsonStrs :
        Len(t[1]) + Len(t[2]) + Len(t[3]) <= MaxStrLen + 1}

MoveCopyObject(bucket_id, source_key, destination_key) ==
    [bucket_id |-> bucket_id, source_key |-> source_key,
     destination_key |-> destination_key]

RECURSIVE Escape(_)
\* the characters of a string as serde_json writes them: '"' and '\' are
\* escaped by a '\'
Escape(str) ==
    IF str = <<>> THEN <<>>
    ELSE (IF Head(str) \in {"\"", "\\"} THEN <<"\\", Head(str)>>
          ELSE <<Head(str)>>) \o Escape(Tail(str))

\* a string as a JSON string
to_string_str(str) == <<"\"">> \o Escape(str) \o <<"\"">>

\* variant: the strings are written without escaping
to_string_raw(obj) ==
    <<"{">> \o <<"\"", "bucketId", "\"">> \o <<":">>
          \o <<"\"">> \o obj.bucket_id \o <<"\"">>
    \o <<",">> \o <<"\"", "sourceKey", "\"">> \o <<":">>
          \o <<"\"">> \o obj.source_key \o <<"\"">>
    \o <<",">> \o <<"\"", "destinationKey", "\"">> \o <<":">>
          \o <<"\"">> \o obj.destination_key \o <<"\"">>
    \o <<"}">>

\* serde_json::to_string of a MoveCopyObject: the fields in the order of the
\* struct, under their serde names
to_string(obj) ==
    <<"{">> \o <<"\"", "bucketId", "\"">> \o <<":">>
          \o to_string_str(obj.bucket_id)
    \o <<",">> \o <<"\"", "sourceKey", "\"">> \o <<":">>
          \o to_string_str(obj.source_key)
    \o <<",">> \o <<"\"", "destinationKey", "\"">> \o <<":">>
          \o to_string_str(obj.destination_key)
    \o <<"}">>

action_intern(i, move_obj, action, call) ==
    /\ slots[i].kind = "builder"
    /\ heap' = [heap EXCEPT ![slots[i].builder.headers] =
                   insert(@, "Content-Type", <<"application/json">>)]
    /\ LET self == [slots[i].builder EXCEPT
                        !.method = "POST",
                        !.url = push(push(@, <<"object">>), action),
                        !.body = StringBody(to_string(move_obj))]
       IN create_executor(i, self, call)
    /\ UNCHANGED <<storage, made>>

action_intern_explicit(i, bucket_id, from_key, to, action, call) ==
    action_intern(i, MoveCopyObject(bucket_id, from_key, to), action, call)

move_object(i, bucket_id, from_key, to) ==
    action_intern_explicit(i, bucket_id, from_key, to, <<"move">>,
        [NoCall EXCEPT !.op = "move_object", !.b = bucket_id,
                       !.from = from_key, !.to = to])

copy_object(i, bucket_id, from_key, to) ==
    action_intern_explicit(i, bucket_id, from_key, to, <<"copy">>,
        [NoCall EXCEPT !.op = "copy_object", !.b = bucket_id,
                       !.from = from_key, !.to = to])

-----------------------------------------------------------------------------
(* Dispatch.  A dispatch builds the request, sends it and suspends at the  *)
(* await; the network then delivers the outcome of the send and the rest   *)
(* of the function runs to its end.                                        *)

Statuses == {200, 201, 404}

JStr(v) == [t |-> "string", v |-> v]

JNum(v) == [t |-> "number", v |-> v]

NotJson == [json |-> FALSE, obj |-> [n \in {} |-> JStr("")]]

JObject(obj) == [json |-> TRUE, obj |-> obj]

\* response bodies: text that is no JSON, {}, and objects with some of the
\* fields of model::object::Response and model::errors::Error
Texts ==
    { NotJson,
      JObject([n \in {"message"} |-> JStr("m1")]),
      JObject([n \in {"message"} |-> JNum("7")]),
      JObject([n \in {"statusCode", "error", "message"} |-> JStr("m2")]),
      JObject([n \in {"status_code", "error", "message"} |-> JStr("m3")]),
      JObject([n \in {"statusCode", "error"} |-> JStr("m4")]) }

TransportError == [tag |-> "Err", error |-> "reqwest::Error"]

Response(status, readable, text) ==
    [tag |-> "Ok", status |-> status, readable |-> readable, text |-> text]

\* what the await of send() can yield
Outcomes ==
    {TransportError}
    \cup {Response(st, TRUE, tx) : st \in Statuses, tx \in Texts}
    \cup {Response(st, FALSE, NotJson) : st \in Statuses}

Ok(v) == [tag |-> "Ok", val |-> v]

Err(e) == [tag |-> "Err", val |-> e]

Panic == [tag |-> "Panic"]

has_string(text, name) ==
    /\ text.json
    /\ name \in DOMAIN text.obj
    /\ text.obj[name].t = "string"

\* serde_json::from_str::<model::object::Response>
from_str_Response(text) ==
    IF has_string(text, "message")
    THEN Ok([message |-> text.obj["message"].v])
    ELSE Err("serde_json::Error")

\* serde_json::from_str::<errors::Error>, fields renamed to camelCase
from_str_Error(text) ==
    IF /\ has_string(text, "statusCode")
       /\ has_string(text, "error")
       /\ has_string(text, "message")
    THEN Ok([status_code |-> text.obj["statusCode"].v,
             error |-> text.obj["error"].v,
             message |-> text.obj["message"].v])
    ELSE Err("serde_json::Error")

\* number of live holders of a header map handle
strong_count(h) ==
    Cardinality({j \in Builders :
        /\ slots[j].kind \in {"builder", "executor"}
        /\ slots[j].builder.headers = h})

\* Builder::new called by the user: on a fresh header map (j = i) or on the
\* handle of builder j
new(i, url, map, j) ==
    /\ slots[i].kind = "free"
    /\ \/ /\ j = i
          /\ heap' = [heap EXCEPT ![i] = map]
       \/ /\ j # i
          /\ slots[j].kind \in {"builder", "executor"}
          /\ map = heap[slots[j].builder.headers]
          /\ UNCHANGED heap
    /\ LET h == IF j = i THEN i ELSE slots[j].builder.headers
       IN slots' = [slots EXCEPT ![i] =
                       [FreeSlot EXCEPT
                           !.kind = "builder",
                           !.origin = "new",
                           !.builder = Builder_new(url, h, "client"),
                           !.call = [NoCall EXCEPT !.op = "new", !.url = url,
                                                   !.map = map]]]
    /\ UNCHANGED <<storage, made>>

\* Executor::build
Executor_build(self) ==
    [method |-> self.method, url |-> self.url,
     headers |-> heap[self.headers],
     body |-> IF self.body = None THEN StringBody("") ELSE self.body]

\* Builder::build; Arc::try_unwrap fails while another holder is alive
Builder_build(self) ==
    IF strong_count(self.headers) > 1
    THEN Panic
    ELSE Ok([method |-> self.method, url |-> self.url,
             headers |-> heap[self.headers], body |-> self.body])

\* the dispatch consumes its builder: the header map is freed with its last
\* holder
release(h) ==
    heap' = IF strong_count(h) <= 1
            THEN [heap EXCEPT ![h] = HeaderMap_new]
            ELSE heap

\* the request goes out and the dispatch suspends
send(i, via, request) ==
    slots' = [slots EXCEPT ![i] =
                 [FreeSlot EXCEPT !.kind = "awaiting", !.via = via,
                                  !.sent = slots[i].sent + 1,
                                  !.request = request]]

\* the dispatch ends with a value or a panic
finish(i, outcome, result) ==
    slots' = [slots EXCEPT ![i] =
                 [FreeSlot EXCEPT
                     !.kind = IF result = Panic THEN "panicked" ELSE "returned",
                     !.via = slots[i].via,
                     !.sent = slots[i].sent,
                     !.outcome = outcome,
                     !.result = result]]

\* Executor::execute, up to the await
execute(i) ==
    /\ slots[i].kind = "executor"
    /\ send(i, "execute", Executor_build(slots[i].builder))
    /\ release(slots[i].builder.headers)
    /\ UNCHANGED <<storage, made>>

\* Executor::execute_from, up to the await of send()
execute_from(i) ==
    /\ slots[i].kind = "executor"
    /\ send(i, "execute_from", Executor_build(slots[i].builder))
    /\ release(slots[i].builder.headers)
    /\ UNCHANGED <<storage, made>>

\* Builder::run, up to the await
run(i) ==
    /\ slots[i].kind = "builder"
    /\ LET built == Builder_build(slots[i].builder)
       IN IF built = Panic
          THEN slots' = [slots EXCEPT ![i] =
                            [FreeSlot EXCEPT !.kind = "panicked",
                                             !.via = "run",
                                             !.result = Panic]]
          ELSE send(i, "run", built.val)
    /\ release(slots[i].builder.headers)
    /\ UNCHANGED <<storage, made>>

\* variant: a failed send is sent again
execute_resume_retry(i, outcome) ==
    /\ slots[i].kind = "awaiting"
    /\ slots[i].via \in {"execute", "run"}
    /\ IF outcome.tag = "Err" /\ slots[i].sent < MaxSends
       THEN slots' = [slots EXCEPT ![i].sent = @ + 1]
       ELSE finish(i, outcome, outcome)
    /\ UNCHANGED <<storage, made, heap>>

\* variant: a response with an error status is turned into Err
execute_resume_for_status(i, outcome) ==
    /\ slots[i].kind = "awaiting"
    /\ slots[i].via \in {"execute", "run"}
    /\ finish(i, outcome,
              IF outcome.tag = "Ok" /\ outcome.status >= 400
              THEN TransportError ELSE outcome)
    /\ UNCHANGED <<storage, made, heap>>

\* Executor::execute and Builder::run after the await: the outcome of send()
\* is the value returned
execute_resume(i, outcome) ==
    /\ slots[i].kind = "awaiting"
    /\ slots[i].via \in {"execute", "run"}
    /\ finish(i, outcome, outcome)
    /\ UNCHANGED <<storage, made, heap>>

\* variant: every 2xx status counts as success
execute_from_result_2xx(outcome) ==
    IF outcome.tag = "Err"
    THEN Panic
    ELSE IF ~outcome.readable
    THEN Panic
    ELSE IF outcome.status >= 200 /\ outcome.status < 300
    THEN (IF from_str_Response(outcome.text).tag = "Ok"
          THEN Ok(from_str_Response(outcome.text).val)
          ELSE Panic)
    ELSE (IF from_str_Error(outcome.text).tag = "Ok"
          THEN Err(from_str_Error(outcome.text).val)
          ELSE Panic)

\* Executor::execute_from after the await of send()
execute_from_result(outcome) ==
    IF outcome.tag = "Err"
    THEN Panic
    ELSE IF ~outcome.readable
    THEN Panic
    ELSE IF outcome.status = 200
    THEN (IF from_str_Response(outcome.text).tag = "Ok"
          THEN Ok(from_str_Response(outcome.text).val)
          ELSE Panic)
    ELSE (IF from_str_Error(outcome.text).tag = "Ok"
          THEN Err(from_str_Error(outcome.text).val)
          ELSE Panic)

execute_from_resume(i, outcome) ==
    /\ slots[i].kind = "awaiting"
    /\ slots[i].via = "execute_from"
    /\ finish(i, outcome, execute_from_result(outcome))
    /\ UNCHANGED <<storage, made, heap>>

-----------------------------------------------------------------------------
(* Signed URLs and uploads *)

\* the tokens tried: one of ordinary characters, one of the characters a
\* query treats specially
Tokens == {<<"t">>, <<"&", "=">>}

\* the pairs of a bucket id and an object key tried with a token
UploadArgs ==
    {p \in Strs \X Strs : Len(p[1]) + Len(p[2]) <= MaxStrLen}

\* File::open of the path given: the file, or none when it cannot be opened
Files == {None, Some("file")}

\* the FileOptions tried: none set, all set, and a content type that is no
\* legal header value
FileOptionsTried ==
    { [cache_control |-> None, content_type |-> None, upsert |-> None],
      [cache_control |-> Some("3600"),
       content_type |-> Some(<<"application/pdf">>), upsert |-> Some("true")],
      [cache_control |-> None, content_type |-> Some(<<"LF">>),
       upsert |-> None] }

\* mime_guess::from_path(object).first_or_octet_stream(): none of the
\* object keys tried ends in a known extension
first_or_octet_stream(object) == <<"application/octet-stream">>

\* an operation panics: the builder is dropped and no executor is yielded
abort(i, call) ==
    /\ slots' = [slots EXCEPT ![i] =
                    [FreeSlot EXCEPT !.kind = "panicked", !.call = call,
                                     !.result = Panic]]
    /\ heap' = IF strong_count(slots[i].builder.headers) <= 1
               THEN [heap EXCEPT ![slots[i].builder.headers] = HeaderMap_new]
               ELSE heap

get_object_with_pre_assigned_url(i, bucket_name, object, token) ==
    /\ slots[i].kind = "builder"
    /\ LET self == [slots[i].builder EXCEPT
                        !.url = append_pair(
                                    push(push(push(push(@, <<"object">>),
                                         <<"sign">>), bucket_name), object),
                                    "token", token)]
       IN create_executor(i, self,
              [NoCall EXCEPT !.op = "get_object_with_pre_assigned_url",
                             !.b = bucket_name, !.o = object,
                             !.token = token])
    /\ UNCHANGED <<storage, made, heap>>

\* Builder::url of upload.rs
url(self, bucket_id, object) ==
    [self EXCEPT !.url = push(push(push(push(push(@, <<"object">>),
                              <<"upload">>), <<"sign">>), bucket_id), object)]

create_signed_upload_url(i, bucket_id, object) ==
    /\ slots[i].kind = "builder"
    /\ LET self == url([slots[i].builder EXCEPT !.method = "POST"],
                       bucket_id, object)
       IN create_executor(i, self,
              [NoCall EXCEPT !.op = "create_signed_upload_url",
                             !.b = bucket_id, !.o = object])
    /\ UNCHANGED <<storage, made, heap>>

\* the header map after the cache-control option is applied
with_cache_control(map, file_options) ==
    IF file_options.cache_control # None
    THEN insert(map, "cache-control",
                <<"max-age=", file_options.cache_control.val>>)
    ELSE map

\* variant: the method is left at GET
upload_to_signed_url_async_get(i, bucket_id, object, token, file, file_options) ==
    /\ slots[i].kind = "builder"
    /\ LET h == slots[i].builder.headers
           call == [NoCall EXCEPT !.op = "upload_to_signed_url_async",
                                  !.b = bucket_id, !.o = object,
                                  !.token = token]
           self == [url(slots[i].builder, bucket_id, object) EXCEPT
                       !.url = append_pair(@, "token", token),
                       !.body = ReqwestBody(file.val)]
       IN IF \/ /\ file_options.content_type # None
                /\ HeaderValue_from_str(file_options.content_type.val) = None
             \/ file = None
          THEN abort(i, call)
          ELSE /\ heap' = [heap EXCEPT ![h] =
                     LET m == with_cache_control(@, file_options)
                     IN IF file_options.content_type # None
                        THEN insert(m, "content-type",
                                    file_options.content_type.val)
                        ELSE m]
               /\ create_executor(i, self, call)
    /\ UNCHANGED <<storage, made>>

upload_to_signed_url_async(i, bucket_id, object, token, file, file_options) ==
    /\ slots[i].kind = "builder"
    /\ LET h == slots[i].builder.headers
           call == [NoCall EXCEPT !.op = "upload_to_signed_url_async",
                                  !.b = bucket_id, !.o = object,
                                  !.token = token]
           self == [url([slots[i].builder EXCEPT !.method = "PUT"],
                        bucket_id, object) EXCEPT
                       !.url = append_pair(@, "token", token),
                       !.body = ReqwestBody(file.val)]
       IN IF \/ /\ file_options.content_type # None
                /\ HeaderValue_from_str(file_options.content_type.val) = None
             \/ file = None
          THEN abort(i, call)
          ELSE /\ heap' = [heap EXCEPT ![h] =
                     LET m == with_cache_control(@, file_options)
                     IN IF file_options.content_type # None
                        THEN insert(m, "content-type",
                                    file_options.content_type.val)
                        ELSE m]
               /\ create_executor(i, self, call)
    /\ UNCHANGED <<storage, made>>

upload_to_signed_url_no_options_async(i, bucket_id, object, token, file) ==
    /\ slots[i].kind = "builder"
    /\ LET h == slots[i].builder.headers
           call == [NoCall EXCEPT
                       !.op = "upload_to_signed_url_no_options_async",
                       !.b = bucket_id, !.o = object, !.token = token]
           self == [url([slots[i].builder EXCEPT !.method = "PUT"],
                        bucket_id, object) EXCEPT
                       !.url = append_pair(@, "token", token),
                       !.body = ReqwestBody(file.val)]
       IN IF file = None
          THEN abort(i, call)
          ELSE /\ heap' = [heap EXCEPT ![h] =
                     insert(@, "Content-Type", first_or_octet_stream(object))]
               /\ create_executor(i, self, call)
    /\ UNCHANGED <<storage, made>>

\* the file is handed over open
upload_from_file_with_pre_assigned_url(i, bucket_id, object, token, file, file_options) ==
    /\ slots[i].kind = "builder"
    /\ LET h == slots[i].builder.headers
           call == [NoCall EXCEPT
                       !.op = "upload_from_file_with_pre_assigned_url",
                       !.b = bucket_id, !.o = object, !.token = token]
           self == [url([slots[i].builder EXCEPT !.method = "PUT"],
                        bucket_id, object) EXCEPT
                       !.url = append_pair(@, "token", token),
                       !.body = ReqwestBody(file)]
       IN IF /\ file_options.content_type # None
             /\ HeaderValue_from_str(file_options.content_type.val) = None
          THEN abort(i, call)
          ELSE /\ heap' = [heap EXCEPT ![h] =
                     LET m == with_cache_control(@, file_options)
                         t == IF file_options.content_type # None
                              THEN insert(m, "content-type",
                                          file_options.content_type.val)
                              ELSE insert(m, "Content-Type",
                                          first_or_octet_stream(object))
                     IN IF file_options.upsert # None
                        THEN insert(t, "x-upsert",
                                    <<file_options.upsert.val>>)
                        ELSE t]
               /\ create_executor(i, self, call)
    /\ UNCHANGED <<storage, made>>

-----------------------------------------------------------------------------
(* Life cycle: NumBuilders builders, small arguments, dispatch.  The      *)
(* caller is one task: it awaits one dispatch at a time, takes the value   *)
(* returned before it goes on, and a panic ends it.                         *)

\* the caller takes the value a dispatch returned
take(i) ==
    /\ slots[i].kind = "returned"
    /\ slots' = [slots EXCEPT ![i] =
                    [FreeSlot EXCEPT !.kind = "done", !.via = slots[i].via,
                                     !.sent = slots[i].sent]]
    /\ UNCHANGED <<storage, made, heap>>

Idle ==
    \A j \in Builders : slots[j].kind \notin {"awaiting", "returned", "panicked"}

Next ==
    \E i \in Builders :
        \/ Idle /\ from(i)
        \/ Idle /\ \E j \in Builders : new(i, storage.url, HeaderMap_new, j)
        \/ Idle /\ header(i, "x-upsert", <<"v">>)
        \/ Idle /\ get_buckets(i)
        \/ Idle /\ \E b \in SmallStrs, s \in SmallBodies : update_bucket(i, b, s)
        \/ Idle /\ execute(i)
        \/ Idle /\ execute_from(i)
        \/ Idle /\ run(i)
        \/ \E o \in Outcomes : execute_resume(i, o)
        \/ \E o \in Outcomes : execute_from_resume(i, o)
        \/ take(i)

\* the life-cycle runs start from a Storage made by new_with_config on the
\* first base URL, with and without an API key
InitLife ==
    /\ Init
    /\ storage.ok
    /\ made.ctor = "new_with_config"
    /\ made.config.supabase_url_storage = Url("http", "localhost", 80, <<>>, <<>>)

Spec == InitLife /\ [][Next]_vars

-----------------------------------------------------------------------------
(* Request construction: one builder, every argument up to MaxStrLen *)

HeaderNames == {"Authorization", "x-upsert"}

HeaderValues == {<<"v">>}

NextReq ==
    \/ from(1)
    \/ \E key \in HeaderNames, value \in HeaderValues : header(1, key, value)
    \/ get_buckets(1)
    \/ \E s \in Bodies : create_bucket(1, s)
    \/ \E b \in Strs : empty_bucket(1, b)
    \/ \E b \in Strs : get_bucket_details(1, b)
    \/ \E b \in Strs, s \in Bodies : update_bucket(1, b, s)
    \/ \E b \in Strs : delete_bucket(1, b)

SpecReq == Init /\ [][NextReq]_vars

-----------------------------------------------------------------------------
(* Request construction of the object operations: one builder of a Storage *)
(* made by either constructor, every argument up to the bounds             *)

\* a builder is in slot i: the operations consume a builder
Building(i) == slots[i].kind = "builder"

NextObj ==
    \/ from(1)
    \/ Building(1) /\ \E p \in ObjectArgs : delete_object(1, p[1], p[2])
    \/ Building(1) /\ \E b \in Strs, s \in Bodies : delete_objects(1, b, s)
    \/ Building(1) /\ \E p \in ObjectArgs : get_object(1, p[1], p[2])
    \/ Building(1) /\ \E b \in Strs : download_object(1, b)
    \/ Building(1) /\ \E b \in Strs, s \in Bodies : list_objects(1, b, s)
    \/ Building(1) /\ \E p \in ObjectArgs : get_public_object(1, p[1], p[2])
    \/ Building(1) /\ \E p \in ObjectArgs : get_public_object_info(1, p[1], p[2])
    \/ Building(1) /\ \E t \in MoveCopyArgs : move_object(1, t[1], t[2], t[3])
    \/ Building(1) /\ \E t \in MoveCopyArgs : copy_object(1, t[1], t[2], t[3])
    \/ Building(1) /\ \E p \in UploadArgs, token \in Tokens :
          get_object_with_pre_assigned_url(1, p[1], p[2], token)
    \/ Building(1) /\ \E p \in ObjectArgs : create_signed_upload_url(1, p[1], p[2])
    \/ Building(1) /\ \E p \in UploadArgs, token \in Tokens, file \in Files,
          file_options \in FileOptionsTried :
          upload_to_signed_url_async(1, p[1], p[2], token, file, file_options)
    \/ Building(1) /\ \E p \in UploadArgs, token \in Tokens, file \in Files :
          upload_to_signed_url_no_options_async(1, p[1], p[2], token, file)
    \/ Building(1) /\ \E p \in UploadArgs, token \in Tokens,
          file_options \in FileOptionsTried :
          upload_from_file_with_pre_assigned_url(1, p[1], p[2], token, "file",
                                                 file_options)

InitObj == Init /\ storage.ok

SpecObj == InitObj /\ [][NextObj]_vars

-----------------------------------------------------------------------------
(* Properties *)

Live(i) == slots[i].kind \in {"builder", "executor"}

\* the request a live builder or executor stands for
View(i) ==
    [url |-> slots[i].builder.url, headers |-> headers_of(i),
     method |-> slots[i].builder.method, body |-> slots[i].builder.body]

\* C1: a dispatch (execute, execute_from, run) sends its request exactly
\* once: once the request of a dispatch is out, whatever the outcome of the
\* send, the number of sends of that dispatch is one and no step sends it
\* again.
C1_SingleSend ==
    /\ [](\A i \in Builders :
            /\ slots[i].sent <= 1
            /\ slots[i].kind \in {"awaiting", "returned", "done"}
                  => slots[i].sent = 1
            /\ slots[i].outcome # NoOutcome => slots[i].sent = 1)
    /\ [][\A i \in Builders :
            slots[i].sent >= 1 => slots'[i].sent = slots[i].sent]_vars

\* C1 witness: a send failed in transport, the dispatch has returned and the
\* request went out once
C1_Witness ==
    \E i \in Builders :
        /\ slots[i].kind = "returned"
        /\ slots[i].outcome = TransportError
        /\ slots[i].sent = 1

\* C2: execute_from chooses between the typed result and the typed error by
\* the status alone: it returns Ok only for status 200 and Err only for
\* another status (201 and 204 included); a 200 body that decodes as T is
\* returned as Ok of the decoded value, and a body of another status that
\* decodes as errors::Error is returned as Err of the decoded error.
C2_StatusDecides ==
    \A i \in Builders :
        (slots[i].via = "execute_from" /\ slots[i].outcome.tag = "Ok"
            /\ slots[i].outcome.readable)
        => LET o == slots[i].outcome
               r == slots[i].result
           IN /\ r.tag = "Ok" => o.status = 200
              /\ r.tag = "Err" => o.status # 200
              /\ (o.status = 200 /\ has_string(o.text, "message"))
                    => r = Ok([message |-> o.text.obj["message"].v])
              /\ (o.status # 200 /\ from_str_Error(o.text).tag = "Ok")
                    => r = Err(from_str_Error(o.text).val)

\* C2 witness: a 201 response whose body also decodes as T was returned as
\* the typed error
C2_Witness ==
    \E i \in Builders :
        /\ slots[i].via = "execute_from"
        /\ slots[i].kind = "returned"
        /\ slots[i].outcome.tag = "Ok"
        /\ slots[i].outcome.status = 201
        /\ has_string(slots[i].outcome.text, "message")
        /\ slots[i].result.tag = "Err"

\* C3: execute_from ends every dispatch by returning a Result: whatever the
\* send delivers (a transport failure, an unreadable body, a body that does
\* not decode), the caller gets Ok or Err and is never aborted.
C3_AlwaysReturns ==
    \A i \in Builders :
        (slots[i].via = "execute_from" /\ slots[i].outcome # NoOutcome)
        => slots[i].result.tag \in {"Ok", "Err"}

\* C4: execute and run return the outcome of the send unchanged: a transport
\* failure as Err, a response of any status as Ok of that response.
C4_OutcomeReturned ==
    \A i \in Builders :
        (slots[i].via \in {"execute", "run"} /\ slots[i].outcome # NoOutcome)
        => /\ slots[i].kind = "returned"
           /\ slots[i].result.tag = slots[i].outcome.tag
           /\ slots[i].result = slots[i].outcome

\* C4 witness: a 404 response was returned as Ok of the response
C4_Witness ==
    \E i \in Builders :
        /\ slots[i].via = "execute"
        /\ slots[i].kind = "returned"
        /\ slots[i].outcome.tag = "Ok"
        /\ slots[i].outcome.status = 404
        /\ slots[i].result.tag = "Ok"

\* C5: the Storage is never changed; a builder made by from() starts from
\* the Storage's URL and headers with method GET and no body; and a step on
\* one builder of the Storage leaves the request of every other builder of
\* the Storage as it was.
C5_BuildersIndependent ==
    [][/\ storage' = storage
       /\ \A i \in Builders :
            (slots[i].kind = "free" /\ slots'[i].origin = "from")
            => /\ slots'[i].builder.url = storage.url
               /\ heap'[slots'[i].builder.headers] = storage.headers
               /\ slots'[i].builder.method = "GET"
               /\ slots'[i].builder.body = None
       /\ \A i, j \in Builders :
            (/\ i # j
             /\ slots'[i] # slots[i]
             /\ slots'[i].origin = "from" /\ slots[j].origin = "from"
             /\ Live(j))
            => /\ slots'[j] = slots[j]
               /\ heap'[slots[j].builder.headers] = headers_of(j)]_vars

\* C5 witness: two builders of one Storage, one with a header and a body the
\* other does not have
C5_Witness ==
    \E i, j \in Builders :
        /\ i # j
        /\ slots[i].origin = "from" /\ slots[j].origin = "from"
        /\ slots[i].kind = "executor" /\ slots[j].kind = "builder"
        /\ get(headers_of(i), "x-upsert") # None
        /\ get(headers_of(i), "Content-Type") # None
        /\ slots[i].builder.body # None
        /\ headers_of(j) = storage.headers
        /\ slots[j].builder.url = storage.url

\* C6: Builder::new yields method GET, no body, and the URL and the header
\* map it was given (so the same number of headers).
C6_NewBuilder ==
    [][\A i \in Builders :
         (slots[i].kind = "free" /\ slots'[i].kind = "builder")
         => LET b == slots'[i].builder
                given == slots'[i].call
            IN /\ b.method = "GET"
               /\ b.body = None
               /\ b.url = given.url
               /\ heap'[b.headers] = given.map
               /\ len(heap'[b.headers]) = len(given.map)]_vars

\* C6 witness: a fresh builder on a map of two headers
C6_Witness ==
    \E i \in Builders :
        /\ slots[i].kind = "builder"
        /\ slots[i].call.op \in {"from", "new"}
        /\ len(slots[i].call.map) = 2
        /\ len(headers_of(i)) = 2

\* C7: header(key, value) maps key to value, keeps every other header, the
\* URL, the method and the body, and the number of headers grows by one
\* exactly when key was absent.
C7_Header ==
    [][\A i \in Builders :
         (slots'[i] # slots[i] /\ slots'[i].call.op = "header")
         => LET c == slots'[i].call
                old == headers_of(i)
                upd == heap'[slots[i].builder.headers]
            IN /\ get(upd, c.key) = Some(c.value)
               /\ \A n \in DOMAIN old :
                    n # Lower(c.key) => n \in DOMAIN upd /\ upd[n] = old[n]
               /\ \A n \in DOMAIN upd : n \in DOMAIN old \/ n = Lower(c.key)
               /\ len(upd) = IF get(old, c.key) = None
                             THEN len(old) + 1 ELSE len(old)
               /\ slots'[i].builder = slots[i].builder
               /\ slots'[i].kind = "builder"]_vars

\* C7 witness: header() has replaced the Authorization value the Storage set
C7_Witness ==
    \E i \in Builders :
        /\ slots[i].kind = "builder"
        /\ slots[i].call.op = "header"
        /\ slots[i].call.key = "Authorization"
        /\ get(slots[i].call.map, "Authorization") = Some(<<"Bearer ", "k">>)
        /\ get(headers_of(i), "Authorization") = Some(<<"v">>)
        /\ len(headers_of(i)) = 2

DecodeChar(c) ==
    CASE c = "%2F" -> "/"
      [] c = "%25" -> "%"
      [] OTHER -> c

DecodePath(path) ==
    [k \in 1..Len(path) |-> [m \in 1..Len(path[k]) |-> DecodeChar(path[k][m])]]

DotSegment(seg) == seg = <<".">> \/ seg = <<".", ".">>

NotDot(seg) == ~DotSegment(seg)

BucketOps == {"get_buckets", "create_bucket", "get_bucket_details",
              "empty_bucket", "update_bucket", "delete_bucket"}

\* the segments an operation pushes: its fixed segments and its arguments
OpSegments(call) ==
    IF call.op \in {"get_buckets", "create_bucket"}
    THEN << <<"bucket">> >>
    ELSE << <<"bucket">>, call.b >>

BucketRequest(i) ==
    LET c == slots[i].call
        b == slots[i].builder
    IN /\ DecodePath(b.url.path) = c.url.path \o OpSegments(c)
       /\ b.method = CASE c.op = "get_buckets" -> "GET"
                       [] c.op = "create_bucket" -> "POST"
                       [] c.op = "get_bucket_details" -> "GET"
                       [] c.op = "empty_bucket" -> "POST"
                       [] c.op = "update_bucket" -> "PUT"
                       [] c.op = "delete_bucket" -> "DELETE"
       /\ b.body = IF c.op \in {"create_bucket", "update_bucket"}
                   THEN StringBody(c.s) ELSE None

\* C10 as stated: for every bucket id b and body s the bucket operations
\* yield GET /bucket, POST /bucket with s, GET /bucket/b, POST /bucket/b,
\* PUT /bucket/b with s and DELETE /bucket/b.
C10_Original ==
    \A i \in Builders :
        (slots[i].kind = "executor" /\ slots[i].call.op \in BucketOps)
        => BucketRequest(i)

\* C10 amended: the same requests for every body s and every bucket id b
\* other than "." and ".."; the id is one percent-encoded segment.
C10_BucketRequests ==
    \A i \in Builders :
        (/\ slots[i].kind = "executor"
         /\ slots[i].call.op \in BucketOps
         /\ ~DotSegment(slots[i].call.b))
        => BucketRequest(i)

\* C10 witness: update_bucket on an id with a '/' has yielded PUT with the
\* body given
C10_Witness ==
    \E i \in Builders :
        /\ slots[i].kind = "executor"
        /\ slots[i].call.op = "update_bucket"
        /\ slots[i].call.b = <<"/", "a">>
        /\ slots[i].call.s = "{\"public\":true}"
        /\ slots[i].builder.method = "PUT"
        /\ slots[i].builder.body = StringBody("{\"public\":true}")
        /\ slots[i].builder.url.path[Len(slots[i].builder.url.path)]
              = <<"%2F", "a">>

\* the segments an object operation pushes: its fixed segments and its
\* arguments
ObjectSegments(call) ==
    CASE call.op \in {"get_object", "delete_object"}
            -> << <<"object">>, call.b, call.o >>
      [] call.op \in {"delete_objects", "download_object"}
            -> << <<"object">>, call.b >>
      [] call.op = "list_objects"
            -> << <<"object">>, <<"list">>, call.b >>
      [] call.op = "get_public_object"
            -> << <<"object">>, <<"public">>, call.b, call.o >>
      [] call.op = "get_public_object_info"
            -> << <<"object">>, <<"info">>, <<"public">>, call.b, call.o >>
      [] call.op = "move_object" -> << <<"object">>, <<"move">> >>
      [] call.op = "copy_object" -> << <<"object">>, <<"copy">> >>
      [] call.op = "get_object_with_pre_assigned_url"
            -> << <<"object">>, <<"sign">>, call.b, call.o >>
      [] call.op \in {"create_signed_upload_url",
                      "upload_to_signed_url_async",
                      "upload_to_signed_url_no_options_async",
                      "upload_from_file_with_pre_assigned_url"}
            -> << <<"object">>, <<"upload">>, <<"sign">>, call.b, call.o >>

\* the executor of slot i was yielded by one of the operations ops
Yielded(i, ops) == slots[i].kind = "executor" /\ slots[i].call.op \in ops

\* the request of slot i goes to the base path followed by the segments of
\* its operation
PathIs(i) ==
    DecodePath(slots[i].builder.url.path)
        = slots[i].call.url.path \o ObjectSegments(slots[i].call)

\* the request of slot i carries Content-Type: application/json
JsonContent(i) ==
    get(headers_of(i), "Content-Type") = Some(<<"application/json">>)

ObjectOps == {"get_object", "delete_object", "delete_objects",
              "download_object"}

\* the request the object operations are said to yield
ObjectRequest(i) ==
    LET c == slots[i].call
        b == slots[i].builder
    IN /\ PathIs(i)
       /\ b.method = CASE c.op = "get_object" -> "GET"
                       [] c.op = "delete_object" -> "DELETE"
                       [] c.op = "delete_objects" -> "DELETE"
                       [] c.op = "download_object" -> "POST"
       /\ b.body = IF c.op = "delete_objects" THEN StringBody(c.s) ELSE None
       /\ c.op \in {"delete_objects", "download_object"} => JsonContent(i)

\* C11 as stated: for every bucket b, object key o and body s, get_object is
\* GET /object/b/o with no body, delete_object is DELETE /object/b/o with no
\* body, delete_objects is DELETE /object/b with body s and Content-Type
\* application/json, download_object is POST /object/b with Content-Type
\* application/json and no body.
C11_Original ==
    \A i \in Builders : Yielded(i, ObjectOps) => ObjectRequest(i)

\* C11 amended: the same requests for every body s and every bucket b and
\* object key o other than "." and ".."; b and o are one percent-encoded
\* segment each.
C11_ObjectRequests ==
    \A i \in Builders :
        (/\ Yielded(i, ObjectOps)
         /\ ~DotSegment(slots[i].call.b)
         /\ ~DotSegment(slots[i].call.o))
        => ObjectRequest(i)

\* C11 witness: delete_objects on a bucket with a '/' has yielded DELETE with
\* the body given and the JSON content type
C11_Witness ==
    \E i \in Builders :
        /\ Yielded(i, {"delete_objects"})
        /\ slots[i].call.b = <<"/", "a">>
        /\ slots[i].call.s = "{\"public\":true}"
        /\ slots[i].builder.method = "DELETE"
        /\ slots[i].builder.body = StringBody("{\"public\":true}")
        /\ JsonContent(i)
        /\ slots[i].builder.url.path[Len(slots[i].builder.url.path)]
              = <<"%2F", "a">>

\* the request list_objects is said to yield
ListRequest(i) ==
    /\ PathIs(i)
    /\ slots[i].builder.method = "POST"
    /\ JsonContent(i)
    /\ slots[i].builder.body = StringBody(slots[i].call.s)

\* C12 as stated: for every bucket b and body s, list_objects(b, s) is a
\* POST to /object/list/b with Content-Type application/json and the body s
\* as given.
C12_Original ==
    \A i \in Builders : Yielded(i, {"list_objects"}) => ListRequest(i)

\* C12 amended: the same request for every body s and every bucket b other
\* than "." and ".."; b is one percent-encoded segment.
C12_ListRequest ==
    \A i \in Builders :
        (Yielded(i, {"list_objects"}) /\ ~DotSegment(slots[i].call.b))
        => ListRequest(i)

\* C12 witness: list_objects on a bucket with a '/' has yielded a POST to
\* /object/list/<bucket> with the body given
C12_Witness ==
    \E i \in Builders :
        /\ Yielded(i, {"list_objects"})
        /\ slots[i].call.b = <<"a", "/">>
        /\ slots[i].call.s = "{\"public\":true}"
        /\ slots[i].call.url.path = <<>>
        /\ slots[i].builder.url.path
              = << <<"object">>, <<"list">>, <<"a", "%2F">> >>
        /\ slots[i].builder.body = StringBody("{\"public\":true}")

NoParse == [ok |-> FALSE, val |-> <<>>, next |-> 0]

RECURSIVE ReadString(_, _, _)
\* reads a JSON string of text whose opening quote is before position k:
\* the characters up to the closing quote, a '\' giving the character after
\* it
ReadString(text, k, acc) ==
    IF k > Len(text) THEN NoParse
    ELSE IF text[k] = "\"" THEN [ok |-> TRUE, val |-> acc, next |-> k + 1]
    ELSE IF text[k] = "\\"
         THEN IF k + 1 > Len(text) THEN NoParse
              ELSE ReadString(text, k + 2, Append(acc, text[k + 1]))
         ELSE ReadString(text, k + 1, Append(acc, text[k]))

RECURSIVE ReadFields(_, _, _)
\* reads the fields "name":"value" of a JSON object from position k on, up
\* to the closing brace at the end of text
ReadFields(text, k, acc) ==
    IF k > Len(text) \/ text[k] # "\"" THEN NoParse
    ELSE LET name == ReadString(text, k + 1, <<>>)
         IN IF ~name.ok \/ name.next + 1 > Len(text)
               \/ text[name.next] # ":" \/ text[name.next + 1] # "\""
            THEN NoParse
            ELSE LET value == ReadString(text, name.next + 2, <<>>)
                     fields == Append(acc, <<name.val, value.val>>)
                 IN IF ~value.ok \/ value.next > Len(text) THEN NoParse
                    ELSE IF text[value.next] = "}"
                         THEN IF value.next = Len(text)
                              THEN [ok |-> TRUE, val |-> fields,
                                    next |-> value.next + 1]
                              ELSE NoParse
                         ELSE IF text[value.next] = ","
                              THEN ReadFields(text, value.next + 1, fields)
                              ELSE NoParse

\* the fields of the JSON object that text is, in their order
JsonFields(text) ==
    IF Len(text) >= 2 /\ text[1] = "{" THEN ReadFields(text, 2, <<>>)
    ELSE NoParse

\* C13: move_object and copy_object yield a POST to /object/move and
\* /object/copy with Content-Type application/json and a body that is a
\* JSON object of exactly the fields bucketId, sourceKey and destinationKey,
\* in this order, holding the bucket id, source key and destination key
\* given.
C13_MoveCopy ==
    \A i \in Builders :
        Yielded(i, {"move_object", "copy_object"})
        => LET c == slots[i].call
               b == slots[i].builder
           IN /\ PathIs(i)
              /\ b.url.path[Len(b.url.path)]
                    = IF c.op = "move_object" THEN <<"move">> ELSE <<"copy">>
              /\ b.method = "POST"
              /\ JsonContent(i)
              /\ b.body # None
              /\ b.body.val.tag = "StringBody"
              /\ JsonFields(b.body.val.val).ok
              /\ JsonFields(b.body.val.val).val
                    = << << <<"bucketId">>, c.b >>,
                         << <<"sourceKey">>, c.from >>,
                         << <<"destinationKey">>, c.to >> >>

\* C13 witness: move_object with a quote in the bucket id and a backslash in
\* the source key has yielded a body in which both are escaped
C13_Witness ==
    \E i \in Builders :
        /\ Yielded(i, {"move_object"})
        /\ slots[i].call.b = <<"\"">>
        /\ slots[i].call.from = <<"a", "\\">>
        /\ slots[i].call.to = <<>>
        /\ slots[i].builder.body = StringBody(
              <<"{", "\"", "bucketId", "\"", ":", "\"", "\\", "\"", "\"",
                ",", "\"", "sourceKey", "\"", ":", "\"", "a", "\\", "\\",
                "\"",
                ",", "\"", "destinationKey", "\"", ":", "\"", "\"", "}">>)

DecodeFormChar(c) ==
    CASE c = "%26" -> "&"
      [] c = "%3D" -> "="
      [] c = "%25" -> "%"
      [] OTHER -> c

DecodeForm(str) == [k \in 1..Len(str) |-> DecodeFormChar(str[k])]

\* the name and the value of one piece name=value of a query
QueryPair(piece) ==
    IF IndexOf(piece, "=") = 0 THEN <<DecodeForm(piece), <<>>>>
    ELSE <<DecodeForm(SubSeq(piece, 1, IndexOf(piece, "=") - 1)),
           DecodeForm(SubSeq(piece, IndexOf(piece, "=") + 1, Len(piece)))>>

\* the pairs a query text holds, as a server reads them
QueryPairs(query) ==
    IF query = <<>> THEN <<>>
    ELSE [k \in 1..Len(Split(query, "&")) |->
             QueryPair(Split(query, "&")[k])]

\* the request of slot i has the query of the base URL followed by the one
\* pair token=<token>
TokenAdded(i) ==
    QueryPairs(slots[i].builder.url.query)
        = QueryPairs(slots[i].call.url.query)
             \o << << <<"token">>, slots[i].call.token >> >>

\* the request get_object_with_pre_assigned_url is said to yield
SignedGetRequest(i) ==
    /\ PathIs(i)
    /\ slots[i].builder.method = "GET"
    /\ slots[i].builder.body = None
    /\ TokenAdded(i)
    /\ slots[i].call.url.query = <<>>
          => QueryPairs(slots[i].builder.url.query)
                = << << <<"token">>, slots[i].call.token >> >>

\* C14 as stated: for every bucket b, object key o and token,
\* get_object_with_pre_assigned_url(b, o, token) is a GET to
\* /object/sign/b/o with no body whose query gains exactly the one pair
\* token=<token>.
C14_Original ==
    \A i \in Builders :
        Yielded(i, {"get_object_with_pre_assigned_url"})
        => SignedGetRequest(i)

\* C14 amended: the same request for every token and every bucket b and
\* object key o other than "." and ".."; b and o are one percent-encoded
\* segment each and the token is form-urlencoded.
C14_SignedGet ==
    \A i \in Builders :
        (/\ Yielded(i, {"get_object_with_pre_assigned_url"})
         /\ ~DotSegment(slots[i].call.b)
         /\ ~DotSegment(slots[i].call.o))
        => SignedGetRequest(i)

\* C14 witness: on a base URL with the query v=1 a token with '&' and '='
\* in it has been appended as the second pair
C14_Witness ==
    \E i \in Builders :
        /\ Yielded(i, {"get_object_with_pre_assigned_url"})
        /\ slots[i].call.token = <<"&", "=">>
        /\ slots[i].call.url.query = <<"v", "=", "1">>
        /\ slots[i].builder.url.query
              = <<"v", "=", "1", "&", "token", "=", "%26", "%3D">>
        /\ slots[i].builder.method = "GET"

UploadOps == {"upload_to_signed_url_async",
              "upload_to_signed_url_no_options_async",
              "upload_from_file_with_pre_assigned_url"}

SignedUploadOps == UploadOps \cup {"create_signed_upload_url"}

\* the number of pairs named token that a query holds
TokenPairs(query) ==
    Cardinality({k \in 1..Len(QueryPairs(query)) :
                    QueryPairs(query)[k][1] = <<"token">>})

\* the request the signed-upload operations are said to yield
SignedUploadRequest(i) ==
    LET c == slots[i].call
        b == slots[i].builder
    IN /\ PathIs(i)
       /\ c.op = "create_signed_upload_url"
             => /\ b.method = "POST"
                /\ b.body = None
                /\ b.url.query = c.url.query
                /\ TokenPairs(b.url.query) = 0
       /\ c.op \in UploadOps
             => /\ b.method = "PUT"
                /\ TokenAdded(i)
                /\ TokenPairs(b.url.query) = 1
                /\ b.body = ReqwestBody("file")

C16_BuildYieldsRequest ==
    [][\A i \in Builders :
          (slots[i].kind = "builder" /\ slots'[i].via = "run")
          => /\ slots'[i].kind = "awaiting"
             /\ slots'[i].request = View(i)]_vars

\* the operations that push a bucket id or an object key
KeyOps == {"get_object", "delete_object", "delete_objects",
           "download_object", "list_objects", "get_public_object",
           "get_public_object_info", "get_object_with_pre_assigned_url",
           "create_signed_upload_url", "upload_to_signed_url_async",
           "upload_to_signed_url_no_options_async",
           "upload_from_file_with_pre_assigned_url"}

\* the segments that the operation of slot i has appended to the base path
Appended(i) ==
    SubSeq(slots[i].builder.url.path, Len(slots[i].call.url.path) + 1,
           Len(slots[i].builder.url.path))

\* C17 as stated: every bucket id and object key contributes exactly one
\* segment whatever its characters: the number of segments an operation
\* appends is the number of its fixed segments and arguments, each argument
\* is one of them, and a '/' in an argument starts no new segment.
C17_Original ==
    \A i \in Builders :
        Yielded(i, KeyOps)
        => /\ Len(Appended(i)) = Len(ObjectSegments(slots[i].call))
           /\ DecodePath(Appended(i)) = ObjectSegments(slots[i].call)

\* C17 amended: every bucket id and object key other than "." and ".."
\* contributes exactly one segment, with its '/' and '%' percent-encoded
\* inside that segment; an argument "." or ".." contributes no segment.
C17_OneSegmentEach ==
    \A i \in Builders :
        Yielded(i, KeyOps)
        => /\ Len(Appended(i))
                 = Len(SelectSeq(ObjectSegments(slots[i].call), NotDot))
           /\ DecodePath(Appended(i))
                 = SelectSeq(ObjectSegments(slots[i].call), NotDot)
           /\ \A k \in 1..Len(Appended(i)) :
                 \A m \in 1..Len(Appended(i)[k]) : Appended(i)[k][m] # "/"

\* C17 witness: get_public_object_info with a '/' in the object key has
\* appended five segments, the key being the last
C17_Witness ==
    \E i \in Builders :
        /\ Yielded(i, {"get_public_object_info"})
        /\ slots[i].call.b = <<"a">>
        /\ slots[i].call.o = <<"a", "/">>
        /\ Appended(i) = << <<"object">>, <<"info">>, <<"public">>, <<"a">>,
                            <<"a", "%2F">> >>

====
